---- MODULE Spec2Model ----
(***************************************************************************)
(* Model of the yew component App of src/app.rs: the code editor state,    *)
(* the requests issued by RunCode, the notification banners and the        *)
(* 3-second futures that send TurnOffShow.                                 *)
(*                                                                         *)
(* A Rust String is a sequence of one-character strings.  Option<String>   *)
(* is the empty sequence (None) or a one-element sequence (Some).          *)
(***************************************************************************)
EXTENDS Integers, Sequences, FiniteSets, TLC

\* ------------------------------------------------------------------ bounds
\* number of RunCode events (clicks on the run button) of a behaviour
MaxRuns == 2

\* ------------------------------------------------------------- constants
PLACEHOLDER ==
    <<" ", " ", "\n", "\t", "l", "e", "t", " ", "i", "d", "e", "n", "t", "i",
      "t", "y", " ", "=", " ", "f", "n", "(", "x", ")", " ", "{", " ", "x",
      ";", " ", "}", ";", " ", "i", "d", "e", "n", "t", "i", "t", "y", "(",
      "5", ")", ";", "\n", " ", " ", " ", " ">>

StatusError == <<"S", "t", "a", "t", "u", "s", " ", "e", "r", "r", "o", "r">>

None == <<>>

Some(s) == <<s>>

\* ------------------------------------------------------- input alphabets
\* texts the textarea can deliver with a change event
CodeInputs == { <<>>, <<" ", "1", ";", " ">>, <<"\"", "a", "\\", "\"">> }

\* bodies the endpoint can answer with (the empty body included)
Bodies == { <<>>, <<"5">>, <<"1", "0">> }

\* failures of gloo_net: Error::GlooError(String) with its payload
TransportErrors == { <<"b", "a", "d", " ", "\"", "x", "\"">> }

\* what the two awaits of send_code can end in
Outcomes ==
    [ok : {TRUE}, data : Bodies] \cup [ok : {FALSE}, data : TransportErrors]

\* ------------------------------------------------------------ formatting
\* core::fmt: one character of a str as Debug prints it
EscapeDebug(c) ==
    CASE c = "\"" -> <<"\\", "\"">>
      [] c = "\\" -> <<"\\", "\\">>
      [] c = "\n" -> <<"\\", "n">>
      [] c = "\t" -> <<"\\", "t">>
      [] OTHER    -> <<c>>

RECURSIVE EscapeAll(_)
EscapeAll(s) ==
    IF s = <<>> THEN <<>> ELSE EscapeDebug(Head(s)) \o EscapeAll(Tail(s))

\* format!("{err:?}") of a str or String
DebugStr(s) == <<"\"">> \o EscapeAll(s) \o <<"\"">>

\* format!("{err:?}") of gloo_net::Error::GlooError(String) (derived Debug)
DebugTransport(e) ==
    <<"G", "l", "o", "o", "E", "r", "r", "o", "r", "(">> \o DebugStr(e) \o <<")">>

\* SendError::new::<gloo_net::Error>: err is the Debug rendering of the argument
SendErrorNew(e) == [err |-> DebugTransport(e)]

\* SendError::new::<&str>: err is the Debug rendering of the argument
SendErrorNewStr(s) == [err |-> DebugStr(s)]

\* send_code: Ok(text), or Err(SendError::new(e)) when either await fails
send_code(o) ==
    IF o.ok THEN [tag |-> "Ok", val |-> o.data]
            ELSE [tag |-> "Err", val |-> SendErrorNew(o.data)]

\* the match of the future that RunCode spawns: the AppMsg it resolves to
RunCodeFuture(res) ==
    CASE res.tag = "Ok" /\ res.val # <<>> -> [type |-> "Response", text |-> res.val]
      [] res.tag = "Err" -> [type |-> "ResponseError", text |-> res.val.err]
      [] OTHER -> [type |-> "ResponseError",
                   text |-> SendErrorNewStr(StatusError).err]

\* ----------------------------------------------------------------- state
VARIABLES
    code,          \* App.code
    message,       \* App.message : Option<String>
    error,         \* App.error : Option<String>
    show_message,  \* App.show_message
    show_error,    \* App.show_error
    pending,       \* futures spawned by RunCode, not resolved: [id, body]
    timers,        \* futures sleeping before TurnOffShow: [id, by, delay, elapsed]
    queue,         \* messages sent with send_message, not yet updated
    nRun,          \* number of RunCode messages processed (request ids)
    typed,         \* history: the text of the latest CodeChanged, if any
    rendered,      \* what the last call of view() put on the page
    renders,       \* history: number of updates that returned true
    visibleFor,    \* history: seconds each banner has been shown without a break
    log            \* completions and TurnOffShow processed, in order

vars == <<code, message, error, show_message, show_error,
          pending, timers, queue, nRun, typed, rendered, renders,
          visibleFor, log>>

\* App::view: the state-dependent part of the page, the two banners; the
\* text of a banner is unwrapped only when its flag is set
View(m, e, sm, se) ==
    [info |-> IF sm THEN m ELSE None,
     error |-> IF se THEN e ELSE None,
     panicked |-> (sm /\ m = None) \/ (se /\ e = None)]

\* App::create
Init ==
    /\ code = PLACEHOLDER
    /\ message = Some(<<"I", "n", "f", "o">>)
    /\ error = Some(<<"E", "r", "r", "o", "r">>)
    /\ show_error = FALSE
    /\ show_message = FALSE
    /\ pending = {}
    /\ timers = {}
    /\ queue = <<>>
    /\ nRun = 0
    /\ typed = None
    /\ rendered = View(message, error, show_message, show_error)
    /\ renders = 0
    /\ visibleFor = [info |-> 0, error |-> 0]
    /\ log = <<>>

\* the completions (Response, ResponseError) processed so far, in order
Completed == SelectSeq(log, LAMBDA x : x.ev # "TurnOffShow")

\* number of completions processed
Completions == Len(Completed)

\* the future of send_future: sleep(Duration::from_secs(secs)), then TurnOffShow
SleepFuture(by, secs) ==
    [id |-> Completions + 1, by |-> by, delay |-> secs, elapsed |-> 0]

\* ------------------------------------------------------------- update()
\* the end of update(): yew calls view() again when update returned true.
\* A banner that is on display before and after keeps its time on display.
Returns(should_render) ==
    /\ IF should_render
         THEN /\ rendered' = View(message', error', show_message', show_error')
              /\ renders' = renders + 1
         ELSE UNCHANGED <<rendered, renders>>
    /\ visibleFor' =
         [info |-> IF show_message /\ show_message' THEN visibleFor.info ELSE 0,
          error |-> IF show_error /\ show_error' THEN visibleFor.error ELSE 0]

\* mutant: the Response arm keeps the text of a banner that is already shown
UpdateResponse_FirstWins(ret) ==
    /\ message' = IF show_message THEN message ELSE Some(ret)
    /\ show_message' = TRUE
    /\ timers' = timers \cup {SleepFuture("Response", 3)}
    /\ UNCHANGED <<code, error, show_error, queue, nRun, typed>>
    /\ Returns(TRUE)

\* mutant: the Response arm also dismisses the Error banner
UpdateResponse_ClearsError(ret) ==
    /\ message' = Some(ret)
    /\ show_message' = TRUE
    /\ error' = None
    /\ show_error' = FALSE
    /\ timers' = timers \cup {SleepFuture("Response", 3)}
    /\ UNCHANGED <<code, queue, nRun, typed>>
    /\ Returns(TRUE)

\* mutant: the Response arm stores the text and never raises the flag
UpdateResponse_NoFlag(ret) ==
    /\ message' = Some(ret)
    /\ show_message' = show_message
    /\ timers' = timers \cup {SleepFuture("Response", 3)}
    /\ UNCHANGED <<code, error, show_error, queue, nRun, typed>>
    /\ Returns(TRUE)

\* mutant: the Response arm restarts the delay: it drops the sleeping futures
UpdateResponse_Rearm(ret) ==
    /\ message' = Some(ret)
    /\ show_message' = TRUE
    /\ timers' = {SleepFuture("Response", 3)}
    /\ UNCHANGED <<code, error, show_error, queue, nRun, typed>>
    /\ Returns(TRUE)

\* AppMsg::Response(ret); text is the String that the message carries
UpdateResponse(ret) ==
    /\ message' = Some(ret)
    /\ show_message' = TRUE
    /\ timers' = timers \cup {SleepFuture("Response", 3)}
    /\ UNCHANGED <<code, error, show_error, queue, nRun, typed>>
    /\ Returns(TRUE)

\* mutant: the ResponseError arm also dismisses the Info banner
UpdateResponseError_ClearsInfo(err) ==
    /\ error' = Some(err)
    /\ show_error' = TRUE
    /\ message' = None
    /\ show_message' = FALSE
    /\ timers' = timers \cup {SleepFuture("ResponseError", 3)}
    /\ UNCHANGED <<code, queue, nRun, typed>>
    /\ Returns(TRUE)

\* mutant: the ResponseError arm stores the text and never raises the flag
UpdateResponseError_NoFlag(err) ==
    /\ error' = Some(err)
    /\ show_error' = show_error
    /\ timers' = timers \cup {SleepFuture("ResponseError", 3)}
    /\ UNCHANGED <<code, message, show_message, queue, nRun, typed>>
    /\ Returns(TRUE)

\* mutant: the ResponseError arm arms no future while one is sleeping
UpdateResponseError_SkipsTimer(err) ==
    /\ error' = Some(err)
    /\ show_error' = TRUE
    /\ timers' = IF timers = {} THEN {SleepFuture("ResponseError", 3)}
                                ELSE timers
    /\ UNCHANGED <<code, message, show_message, queue, nRun, typed>>
    /\ Returns(TRUE)

\* AppMsg::ResponseError(e); err is e.err
UpdateResponseError(err) ==
    /\ error' = Some(err)
    /\ show_error' = TRUE
    /\ timers' = timers \cup {SleepFuture("ResponseError", 3)}
    /\ UNCHANGED <<code, message, show_message, queue, nRun, typed>>
    /\ Returns(TRUE)

\* the future spawned by RunCode for request r resolves with outcome o and
\* its message is updated
Resolve(r, o) ==
    LET msg == RunCodeFuture(send_code(o)) IN
    /\ queue = <<>>
    /\ r \in pending
    /\ pending' = pending \ {r}
    /\ log' = Append(log, [ev |-> msg.type, id |-> r.id, text |-> msg.text])
    /\ \/ msg.type = "Response" /\ UpdateResponse(msg.text)
       \/ msg.type = "ResponseError" /\ UpdateResponseError(msg.text)

Response ==
    \E r \in pending, o \in Outcomes :
        RunCodeFuture(send_code(o)).type = "Response" /\ Resolve(r, o)

ResponseError ==
    \E r \in pending, o \in Outcomes :
        RunCodeFuture(send_code(o)).type = "ResponseError" /\ Resolve(r, o)

\* mutant: TurnOffShow dismisses only the banner its future was armed for
UpdateTurnOffShow_OwnSlot(t) ==
    /\ queue = <<>>
    /\ t \in timers
    /\ t.elapsed = t.delay
    /\ timers' = timers \ {t}
    /\ IF t.by = "Response"
         THEN message' = None /\ show_message' = FALSE
              /\ UNCHANGED <<error, show_error>>
         ELSE error' = None /\ show_error' = FALSE
              /\ UNCHANGED <<message, show_message>>
    /\ log' = Append(log, [ev |-> "TurnOffShow", id |-> t.id, text |-> <<>>])
    /\ UNCHANGED <<code, pending, queue, nRun, typed>>
    /\ Returns(TRUE)

\* mutant: only the future armed by the latest completion dismisses
UpdateTurnOffShow_LatestOnly(t) ==
    /\ queue = <<>>
    /\ t \in timers
    /\ t.elapsed = t.delay
    /\ timers' = timers \ {t}
    /\ IF t.id = Completions
         THEN message' = None /\ error' = None
              /\ show_error' = FALSE /\ show_message' = FALSE
         ELSE UNCHANGED <<message, error, show_error, show_message>>
    /\ log' = Append(log, [ev |-> "TurnOffShow", id |-> t.id, text |-> <<>>])
    /\ UNCHANGED <<code, pending, queue, nRun, typed>>
    /\ Returns(TRUE)

\* mutant: the TurnOffShow arm asks for no render
UpdateTurnOffShow_NoRender(t) ==
    /\ queue = <<>>
    /\ t \in timers
    /\ t.elapsed = t.delay
    /\ timers' = timers \ {t}
    /\ message' = None
    /\ error' = None
    /\ show_error' = FALSE
    /\ show_message' = FALSE
    /\ log' = Append(log, [ev |-> "TurnOffShow", id |-> t.id, text |-> <<>>])
    /\ UNCHANGED <<code, pending, queue, nRun, typed>>
    /\ Returns(FALSE)

\* mutant: the TurnOffShow arm wipes the texts and leaves the flags
UpdateTurnOffShow_KeepsFlags(t) ==
    /\ queue = <<>>
    /\ t \in timers
    /\ t.elapsed = t.delay
    /\ timers' = timers \ {t}
    /\ message' = None
    /\ error' = None
    /\ UNCHANGED <<show_error, show_message>>
    /\ log' = Append(log, [ev |-> "TurnOffShow", id |-> t.id, text |-> <<>>])
    /\ UNCHANGED <<code, pending, queue, nRun, typed>>
    /\ Returns(TRUE)

\* mutant: the TurnOffShow arm lowers the flags and keeps the texts
UpdateTurnOffShow_KeepsText(t) ==
    /\ queue = <<>>
    /\ t \in timers
    /\ t.elapsed = t.delay
    /\ timers' = timers \ {t}
    /\ UNCHANGED <<message, error>>
    /\ show_error' = FALSE
    /\ show_message' = FALSE
    /\ log' = Append(log, [ev |-> "TurnOffShow", id |-> t.id, text |-> <<>>])
    /\ UNCHANGED <<code, pending, queue, nRun, typed>>
    /\ Returns(TRUE)

\* AppMsg::TurnOffShow, sent by the sleeping future t when its delay is over
UpdateTurnOffShow(t) ==
    /\ queue = <<>>
    /\ t \in timers
    /\ t.elapsed = t.delay
    /\ timers' = timers \ {t}
    /\ message' = None
    /\ error' = None
    /\ show_error' = FALSE
    /\ show_message' = FALSE
    /\ log' = Append(log, [ev |-> "TurnOffShow", id |-> t.id, text |-> <<>>])
    /\ UNCHANGED <<code, pending, queue, nRun, typed>>
    /\ Returns(TRUE)

TurnOffShow == \E t \in timers : UpdateTurnOffShow(t)

\* mutant: RunCode issues no request while one is in flight
RunCode_Dedup ==
    /\ queue = <<>>
    /\ nRun < MaxRuns
    /\ nRun' = nRun + 1
    /\ pending' = IF pending = {} THEN {[id |-> nRun + 1, body |-> code]}
                                  ELSE pending
    /\ queue' = Append(queue, "Fetching")
    /\ UNCHANGED <<code, message, error, show_message, show_error, timers,
                   typed, log>>
    /\ Returns(FALSE)

\* mutant: RunCode sends the placeholder sample, not the stored code
RunCode_SendsPlaceholder ==
    /\ queue = <<>>
    /\ nRun < MaxRuns
    /\ nRun' = nRun + 1
    /\ pending' = pending \cup {[id |-> nRun + 1, body |-> PLACEHOLDER]}
    /\ queue' = Append(queue, "Fetching")
    /\ UNCHANGED <<code, message, error, show_message, show_error, timers,
                   typed, log>>
    /\ Returns(FALSE)

\* mutant: the run button is dead while the Error banner is shown
RunCode_BlockedByError ==
    /\ queue = <<>>
    /\ ~show_error
    /\ nRun < MaxRuns
    /\ nRun' = nRun + 1
    /\ pending' = pending \cup {[id |-> nRun + 1, body |-> code]}
    /\ queue' = Append(queue, "Fetching")
    /\ UNCHANGED <<code, message, error, show_message, show_error, timers,
                   typed, log>>
    /\ Returns(FALSE)

\* AppMsg::RunCode, sent by the onclick callback of the button
RunCode ==
    /\ queue = <<>>
    /\ nRun < MaxRuns
    /\ nRun' = nRun + 1
    /\ pending' = pending \cup {[id |-> nRun + 1, body |-> code]}
    /\ queue' = Append(queue, "Fetching")
    /\ UNCHANGED <<code, message, error, show_message, show_error, timers,
                   typed, log>>
    /\ Returns(FALSE)

\* mutant: Fetching takes the banners of the previous run off the screen
Fetching_Dismisses ==
    /\ queue # <<>>
    /\ Head(queue) = "Fetching"
    /\ queue' = Tail(queue)
    /\ show_message' = FALSE
    /\ show_error' = FALSE
    /\ UNCHANGED <<code, message, error, pending, timers, nRun, typed, log>>
    /\ Returns(FALSE)

\* AppMsg::Fetching
Fetching ==
    /\ queue # <<>>
    /\ Head(queue) = "Fetching"
    /\ queue' = Tail(queue)
    /\ UNCHANGED <<code, message, error, show_message, show_error,
                   pending, timers, nRun, typed, log>>
    /\ Returns(FALSE)

\* mutant: CodeChanged rejects an empty text
UpdateCodeChanged_NonEmpty(s) ==
    /\ queue = <<>>
    /\ code' = IF s = <<>> THEN code ELSE s
    /\ typed' = Some(s)
    /\ UNCHANGED <<message, error, show_message, show_error,
                   pending, timers, queue, nRun, log>>
    /\ Returns(FALSE)

\* mutant: editing the code takes the banners off the screen
UpdateCodeChanged_Dismisses(s) ==
    /\ queue = <<>>
    /\ code' = s
    /\ typed' = Some(s)
    /\ show_message' = FALSE
    /\ show_error' = FALSE
    /\ UNCHANGED <<message, error, pending, timers, queue, nRun, log>>
    /\ Returns(FALSE)

\* AppMsg::CodeChanged(code), sent by the onchange callback of the textarea
UpdateCodeChanged(s) ==
    /\ queue = <<>>
    /\ code' = s
    /\ typed' = Some(s)
    /\ UNCHANGED <<message, error, show_message, show_error,
                   pending, timers, queue, nRun, log>>
    /\ Returns(FALSE)

CodeChanged == \E s \in CodeInputs : UpdateCodeChanged(s)

\* one second of the simulated clock passes for every sleeping future; a
\* future whose delay is over sends its message before the clock moves on
Tick ==
    /\ queue = <<>>
    /\ timers # {}
    /\ \A t \in timers : t.elapsed < t.delay
    /\ timers' = { [t EXCEPT !.elapsed = @ + 1] : t \in timers }
    /\ visibleFor' =
         [info |-> IF show_message THEN visibleFor.info + 1 ELSE 0,
          error |-> IF show_error THEN visibleFor.error + 1 ELSE 0]
    /\ UNCHANGED <<code, message, error, show_message, show_error,
                   pending, queue, nRun, typed, rendered, renders, log>>

Next ==
    \/ RunCode
    \/ Fetching
    \/ CodeChanged
    \/ Response
    \/ ResponseError
    \/ TurnOffShow
    \/ Tick

Spec == Init /\ [][Next]_vars

\* The same program with what its environment guarantees: the scheduler
\* drains its queue, every request resolves, time passes, and a future whose
\* delay is over sends its message.  The user owes nothing: no fairness for
\* RunCode and CodeChanged.
FairSpec ==
    /\ Init
    /\ [][Next]_vars
    /\ WF_vars(Fetching)
    /\ WF_vars(Response \/ ResponseError)
    /\ WF_vars(Tick)
    /\ WF_vars(TurnOffShow)

\* --------------------------------------------------------------- claims
Last(s) == s[Len(s)]

\* the last processed completion or TurnOffShow, if any
LastIs(ev) == log # <<>> /\ Last(log).ev = ev

\* C1: when a request completes with a non-empty body v, the state after the
\* update shows the Info banner with text exactly v, and an Error banner
\* that was hidden before is still hidden.
C1_InfoShown ==
    [][\A r \in pending, o \in Outcomes :
          (o.ok /\ o.data # <<>> /\ Resolve(r, o))
          => /\ show_message'
             /\ message' = Some(o.data)
             /\ (~show_error => ~show_error')]_vars

C1_Witness ==
    /\ LastIs("Response")
    /\ Last(log).text = <<"1", "0">>
    /\ show_message
    /\ message = Some(<<"1", "0">>)
    /\ ~show_error

\* the sentinel as the Error slot receives it: "Status error" in Debug form
SentinelText == <<"\"">> \o StatusError \o <<"\"">>

\* C2 as stated: a completion with an empty body is a ResponseError, the Error
\* banner shows 'Status error', and the Info banner is hidden afterwards
\* (cleared if it was visible).
C2_Original ==
    [][\A r \in pending, o \in Outcomes :
          (o.ok /\ o.data = <<>> /\ Resolve(r, o))
          => /\ Last(log').ev = "ResponseError"
             /\ show_error'
             /\ error' = Some(StatusError)
             /\ ~show_message']_vars

\* C2 amended: a completion with an empty body is a ResponseError, never a
\* Response; afterwards the Error banner is visible with the fixed sentinel
\* text, which is "Status error" wrapped in double quotes, and the Info slot
\* is as it was before: hidden if hidden, visible with its text if visible.
C2_EmptyBody ==
    [][\A r \in pending, o \in Outcomes :
          (o.ok /\ o.data = <<>> /\ Resolve(r, o))
          => /\ Last(log').ev = "ResponseError"
             /\ show_error'
             /\ error' = Some(SentinelText)
             /\ show_message' = show_message
             /\ message' = message]_vars

C2_Witness ==
    /\ LastIs("ResponseError")
    /\ Last(log).text = SentinelText
    /\ show_error
    /\ error = Some(SentinelText)
    /\ show_message
    /\ message = Some(<<"5">>)

\* C3: a request that fails in the transport completes as a ResponseError
\* with a non-empty description, which the Error banner then shows; and
\* after any completion is processed at least one banner is visible.
C3_FailureShown ==
    [][\A r \in pending, o \in Outcomes :
          /\ (~o.ok /\ Resolve(r, o))
             => /\ Last(log').ev = "ResponseError"
                /\ Last(log').text # <<>>
                /\ show_error'
                /\ error' = Some(Last(log').text)
          /\ Resolve(r, o) => (show_message' \/ show_error')]_vars

C3_Witness ==
    /\ LastIs("ResponseError")
    /\ \E e \in TransportErrors : Last(log).text = DebugTransport(e)
    /\ show_error
    /\ error = Some(Last(log).text)
    /\ ~show_message

\* C4: a TurnOffShow is processed exactly 3 seconds after the completion
\* that armed its future; the clock never passes a due future; and in the
\* state after it both banners are hidden and both texts are None, whichever
\* kind of completion armed it.
C4_SharedDismissal ==
    /\ [](\A t \in timers : t.elapsed <= 3)
    /\ [][/\ Tick => \A t \in timers : t.elapsed < 3
          /\ \A t \in timers :
                UpdateTurnOffShow(t)
                => /\ t.elapsed = 3
                   /\ ~show_message' /\ ~show_error'
                   /\ message' = None /\ error' = None]_vars

\* only the Info banner was shown, with the Error text of create() still
\* stored, and the one TurnOffShow cleared both slots
C4_Witness ==
    /\ Len(log) = 2
    /\ log[1].ev = "Response"
    /\ log[2].ev = "TurnOffShow"
    /\ ~show_message /\ ~show_error
    /\ message = None /\ error = None

\* C5: as long as no TurnOffShow has been processed after it, the last
\* completion processed owns its slot: the slot is visible with that
\* completion's text, whatever the order the requests were issued in.
C5_LastWriterWins ==
    (log # <<>> /\ Last(log).ev # "TurnOffShow")
    => LET l == Last(log) IN
       /\ l.ev = "Response" => (show_message /\ message = Some(l.text))
       /\ l.ev = "ResponseError" => (show_error /\ error = Some(l.text))

\* request 2 completed first, request 1 after it, with another text
C5_Witness ==
    /\ Len(log) = 2
    /\ log[1] = [ev |-> "Response", id |-> 2, text |-> <<"5">>]
    /\ log[2] = [ev |-> "Response", id |-> 1, text |-> <<"1", "0">>]
    /\ show_message
    /\ message = Some(<<"1", "0">>)

\* C6 as stated: at most one request is in flight.
C6_Original == Cardinality(pending) <= 1

\* C6 amended: the requests in flight are not limited to one: every RunCode
\* adds one, also while others are in flight, so their number is always the
\* number of RunCode processed minus the number of completions processed.
C6_InFlightCount == Cardinality(pending) = nRun - Completions

C6_Witness == Cardinality(pending) = 2 /\ nRun = 2 /\ Completions = 0

\* the stored code as the user last left it
ExpectedBody == IF typed = None THEN PLACEHOLDER ELSE typed[1]

\* C7: each RunCode issues exactly one request, whose body is the stored code
\* at that moment (the placeholder if no CodeChanged happened, else the text
\* of the latest CodeChanged); a later CodeChanged leaves issued requests
\* alone; and every issued request is either still in flight or has
\* produced exactly one completion, never two.
C7_OneRequestOneCompletion ==
    /\ [][/\ RunCode => /\ pending' = pending \cup
                                     {[id |-> nRun', body |-> ExpectedBody]}
                          /\ Cardinality(pending') = Cardinality(pending) + 1
          /\ CodeChanged => pending' = pending]_vars
    /\ [](/\ \A i, j \in 1..Len(Completed) :
                Completed[i].id = Completed[j].id => i = j
          /\ \A r1, r2 \in pending : r1.id = r2.id => r1 = r2
          /\ {Completed[i].id : i \in 1..Len(Completed)}
                \cap {r.id : r \in pending} = {}
          /\ {Completed[i].id : i \in 1..Len(Completed)}
                \cup {r.id : r \in pending} = 1..nRun)

\* the first request carries the placeholder, the second the typed text, the
\* code was changed again after that, and the first one has completed
C7_Witness ==
    /\ nRun = 2
    /\ Len(Completed) = 1
    /\ Completed[1].id = 1
    /\ pending = {[id |-> 2, body |-> <<" ", "1", ";", " ">>]}
    /\ code = <<>>

\* C8: processing CodeChanged(s) leaves the stored code equal to exactly s,
\* for every text s, whatever the code was and whatever is pending.
C8_CodeRoundTrip ==
    [][\A s \in CodeInputs : (CodeChanged /\ typed' = Some(s)) => code' = s]_vars

\* an empty text replaced a non-empty one while a request and a future were
\* pending
C8_Witness ==
    /\ typed = Some(<<>>)
    /\ code = <<>>
    /\ pending # {}
    /\ timers # {}
    /\ \E r \in pending : r.body = <<" ", "1", ";", " ">>

\* C9: whenever the scheduler is idle the run button works, whatever is in
\* flight or on display; a ResponseError issues no request and removes
\* exactly the request it belongs to; and some event can always be
\* processed.
C9_NeverHalts ==
    /\ []((queue = <<>> /\ nRun < MaxRuns) => ENABLED RunCode)
    /\ [](ENABLED Next)
    /\ [][ResponseError
          => /\ nRun' = nRun
             /\ queue' = queue
             /\ pending' \subseteq pending
             /\ Cardinality(pending') = Cardinality(pending) - 1]_vars

\* after a ResponseError, with the Error banner on display, RunCode can be
\* processed
C9_Witness ==
    /\ LastIs("ResponseError")
    /\ show_error
    /\ nRun < MaxRuns
    /\ queue = <<>>
    /\ ENABLED RunCode

\* C10: a Response leaves the Error slot as it was and a ResponseError
\* leaves the Info slot as it was.
C10_SlotsIndependent ==
    [][/\ Response => UNCHANGED <<error, show_error>>
       /\ ResponseError => UNCHANGED <<message, show_message>>]_vars

\* both banners are on display, after a Response and a ResponseError with
\* no TurnOffShow in between
C10_Witness ==
    /\ Len(log) = 2
    /\ log[1].ev = "ResponseError"
    /\ log[2].ev = "Response"
    /\ show_message /\ message = Some(log[2].text)
    /\ show_error /\ error = Some(log[1].text)

\* the position in Completed of the last completion of the given kind, or 0;
\* the future armed by the i-th completion has id i
LastIdx(kind) ==
    LET I == {i \in 1..Len(Completed) : Completed[i].ev = kind}
    IN IF I = {} THEN 0 ELSE CHOOSE i \in I : \A j \in I : j <= i

\* the slot of a kind is shown with the text of its last write, and the
\* future armed by that write is still sleeping
OwnTimerPending(kind, flag, slot) ==
    flag => /\ LastIdx(kind) > 0
            /\ slot = Some(Completed[LastIdx(kind)].text)
            /\ \E t \in timers : t.id = LastIdx(kind) /\ t.by = kind

\* C11 as stated: each banner is hidden by its own timer: a TurnOffShow
\* hides a visible banner only when it comes from the future armed by the
\* last write of that banner, 3 seconds after that write.
C11_Original ==
    /\ [](/\ OwnTimerPending("Response", show_message, message)
          /\ OwnTimerPending("ResponseError", show_error, error))
    /\ [][\A t \in timers :
             UpdateTurnOffShow(t)
             => /\ (show_message /\ ~show_message') => t.id = LastIdx("Response")
                /\ (show_error /\ ~show_error') => t.id = LastIdx("ResponseError")]_vars

\* C11 amended: the banners share the dismissal.  A banner written at time
\* t keeps its text and stays visible until the first TurnOffShow after t
\* or a rewrite of its slot; every TurnOffShow hides both banners, whichever
\* completion armed its future; the banner's own future is still sleeping
\* until then, so the banner is hidden at t + 3 s at the latest, and sooner
\* when the future of an earlier completion is due first.
C11_SharedTimer ==
    /\ [](/\ OwnTimerPending("Response", show_message, message)
          /\ OwnTimerPending("ResponseError", show_error, error)
          /\ \A t \in timers : t.elapsed <= 3)
    /\ [][/\ \A t \in timers :
                UpdateTurnOffShow(t) => (~show_message' /\ ~show_error')
          /\ (show_message /\ ~show_message') => TurnOffShow
          /\ (show_error /\ ~show_error') => TurnOffShow
          /\ (show_message /\ message' # message) => (TurnOffShow \/ Response)
          /\ (show_error /\ error' # error)
                => (TurnOffShow \/ ResponseError)]_vars

\* the future of the first Response hid the banner that the second Response
\* had rewritten less than 3 seconds before
C11_Witness ==
    /\ Len(log) = 3
    /\ log[1].ev = "Response"
    /\ log[2].ev = "Response"
    /\ log[3].ev = "TurnOffShow" /\ log[3].id = 1
    /\ ~show_message
    /\ \E t \in timers : t.id = 2 /\ t.elapsed < 3

\* C12: the Info flag goes up only with a Response, the Error flag only with
\* a ResponseError, either flag goes down only with a TurnOffShow; RunCode,
\* Fetching and CodeChanged change no flag and no stored text; and with no
\* completion processed both banners are hidden.
C12_VisibilityEvents ==
    /\ [](Completions = 0 => (~show_message /\ ~show_error))
    /\ [][/\ (~show_message /\ show_message') => Response
          /\ (~show_error /\ show_error') => ResponseError
          /\ (show_message /\ ~show_message') => TurnOffShow
          /\ (show_error /\ ~show_error') => TurnOffShow
          /\ (RunCode \/ Fetching \/ CodeChanged)
                => UNCHANGED <<show_message, show_error, message, error>>]_vars

\* RunCode has just been processed with the Info banner on display, and
\* the banner is still there
C12_Witness ==
    /\ queue = <<"Fetching">>
    /\ show_message
    /\ message = Some(<<"5">>)
    /\ nRun = Completions + 1

\* C13: only CodeChanged changes the stored code, and CodeChanged changes
\* nothing else: no request, no future, no queued message, no slot.
C13_CodeFrame ==
    [][/\ code' # code => CodeChanged
       /\ (Response \/ ResponseError \/ TurnOffShow \/ RunCode \/ Fetching)
             => code' = code
       /\ CodeChanged
             => UNCHANGED <<message, error, show_message, show_error,
                            pending, timers, queue, nRun>>]_vars

\* the code was edited; both banners, a request and two futures are intact
C13_Witness ==
    /\ typed = Some(<<"\"", "a", "\\", "\"">>)
    /\ code = <<"\"", "a", "\\", "\"">>
    /\ show_message /\ show_error
    /\ Cardinality(timers) = 2
    /\ nRun = 2

\* ids of the futures that have sent their TurnOffShow
TurnedOff == {log[i].id : i \in {j \in 1..Len(log) : log[j].ev = "TurnOffShow"}}

\* number of TurnOffShow processed
TurnOffs == Len(log) - Completions

\* C14: every completion arms exactly one new future, also while a banner
\* is shown and another future sleeps; no other event adds, drops or
\* restarts a future; each future sends TurnOffShow once; so the TurnOffShow
\* processed never outnumber the completions and match them once no future
\* is left.
C14_TimerPerCompletion ==
    /\ [](/\ TurnedOff \cap {t.id : t \in timers} = {}
          /\ TurnedOff \cup {t.id : t \in timers} = 1..Completions
          /\ Cardinality(TurnedOff) = TurnOffs
          /\ Cardinality(timers) = Cardinality({t.id : t \in timers})
          /\ TurnOffs <= Completions
          /\ (timers = {} => TurnOffs = Completions))
    /\ [][/\ (Response \/ ResponseError)
                => /\ timers \subseteq timers'
                   /\ Cardinality(timers' \ timers) = 1
                   /\ \A t \in timers' \ timers : t.elapsed = 0 /\ t.delay = 3
          /\ (RunCode \/ Fetching \/ CodeChanged) => timers' = timers
          /\ \A t \in timers : UpdateTurnOffShow(t) => timers' = timers \ {t}
          /\ \A t \in timers : \A u \in timers' :
                u.id = t.id => (u.elapsed >= t.elapsed /\ u.delay = t.delay)]_vars

\* two completions in a row, the second with a banner shown and a future
\* asleep, and then the two TurnOffShow
C14_Witness ==
    /\ Len(log) = 4
    /\ log[1].ev = "Response"
    /\ log[2].ev = "ResponseError"
    /\ log[3].ev = "TurnOffShow"
    /\ log[4].ev = "TurnOffShow"
    /\ timers = {}

\* the fields of App
Fields == <<code, message, error, show_message, show_error>>

\* C15 as stated: an update that changes any field of App returns true, and
\* the page is the view of the current state.
C15_Original ==
    /\ [](rendered = View(message, error, show_message, show_error))
    /\ [][Fields' # Fields => renders' = renders + 1]_vars

\* C15 amended: an update that changes a field the view reads (message,
\* error, show_message, show_error) returns true; CodeChanged changes code
\* and returns false, and the view does not read code; so the page is
\* always the view of the current state.
C15_ViewInSync ==
    /\ [](rendered = View(message, error, show_message, show_error))
    /\ [][/\ <<message, error, show_message, show_error>>'
                # <<message, error, show_message, show_error>>
                => renders' = renders + 1
          /\ (CodeChanged /\ code' # code) => renders' = renders]_vars

\* the code was edited without a render, a Response and a TurnOffShow were
\* rendered, and the page shows no banner
C15_Witness ==
    /\ typed # None
    /\ code # PLACEHOLDER
    /\ Len(log) = 2
    /\ LastIs("TurnOffShow")
    /\ renders = 2
    /\ rendered = [info |-> None, error |-> None, panicked |-> FALSE]

\* C16: a set flag implies a stored text: show_message implies message is
\* Some, show_error implies error is Some, and no render has unwrapped None.
C16_TextPresent ==
    /\ show_message => message # None
    /\ show_error => error # None
    /\ ~rendered.panicked

\* after a TurnOffShow wiped both texts, a Response shows the Info banner
\* with its text and the Error slot holds None with its flag down
C16_Witness ==
    /\ Len(log) = 3
    /\ log[2].ev = "TurnOffShow"
    /\ log[3].ev = "Response"
    /\ show_message /\ message = Some(log[3].text)
    /\ ~show_error /\ error = None
    /\ rendered.info = message

\* C17: no banner is on display for more than 3 seconds without a break:
\* a flag that goes up arms a future at that moment, that future sleeps as
\* long as the flag stays up, and later completions do not delay it.
C17_AtMostThreeSeconds ==
    /\ [](/\ visibleFor.info <= 3
          /\ visibleFor.error <= 3
          /\ show_message => \E t \in timers : t.elapsed = visibleFor.info
          /\ show_error => \E t \in timers : t.elapsed = visibleFor.error)
    /\ [][/\ (~show_message /\ show_message')
                => \E t \in timers' \ timers : t.elapsed = 0 /\ t.delay = 3
          /\ (~show_error /\ show_error')
                => \E t \in timers' \ timers : t.elapsed = 0 /\ t.delay = 3]_vars

\* the Info banner has been up for 3 seconds, rewritten by a second Response
\* after the first, and the future of the first is due
C17_Witness ==
    /\ show_message
    /\ visibleFor.info = 3
    /\ Len(log) = 2
    /\ log[1].ev = "Response" /\ log[2].ev = "Response"
    /\ \E t \in timers : t.id = 1 /\ t.elapsed = 3
    /\ \E t \in timers : t.id = 2 /\ t.elapsed < 3

\* nothing in flight, no future asleep, both banners hidden
Quiet ==
    /\ pending = {}
    /\ timers = {}
    /\ ~show_message
    /\ ~show_error

\* C18 as stated: the system ends up, for good, with nothing in flight, no
\* future asleep, both banners hidden and both texts cleared.  (That both
\* flags end up down for good includes that every banner that is shown is
\* hidden later.)
C18_Original == <>[](Quiet /\ message = None /\ error = None)

\* C18 amended: the system ends up, for good, with nothing in flight, no
\* future asleep and both banners hidden; both texts are cleared if at
\* least one request has completed, and are still the "Info" and "Error"
\* of create() if none has.  (That both flags end up down for good includes
\* that every banner that is shown is hidden later.)
C18_Quiescence ==
    <>[](/\ Quiet
         /\ Completions > 0 => (message = None /\ error = None)
         /\ Completions = 0 => /\ message = Some(<<"I", "n", "f", "o">>)
                               /\ error = Some(<<"E", "r", "r", "o", "r">>))

\* every RunCode of the run has completed and every future has fired
C18_Witness ==
    /\ Quiet
    /\ nRun = MaxRuns
    /\ Completions = MaxRuns
    /\ TurnOffs = MaxRuns
    /\ message = None /\ error = None

====
